---------------------------- MODULE Spec2Model ----------------------------
(***************************************************************************)
(* Model of scripts/data-pipeline/1_extract_wdpa.py: the extraction of    *)
(* World Heritage Site components from the WDPA CSV, the fuzzy matching    *)
(* of the site groups against the UNESCO registry, and main's re-keying    *)
(* and saving of the two JSON outputs.                                     *)
(*                                                                         *)
(* Python strings are sequences of one-character strings, so that lower(), *)
(* `in`, split() and strip() are computed and not assumed.  A Python dict  *)
(* that is iterated (whs_sites) is a sequence of entries in insertion      *)
(* order; a dict that is only indexed is a function.                       *)
(***************************************************************************)
EXTENDS Integers, Sequences, FiniteSets, TLC

(***************************************************************************)
(* Bounds of the model.                                                    *)
(***************************************************************************)
\* rows the CSV reader yields in one run
MaxRows == 4
\* entries of the registry (sites.json) in one run
MaxSites == 2

(***************************************************************************)
(* Python str operations.                                                  *)
(***************************************************************************)
UpperCase == <<"A","B","C","D","E","F","G","H","I","J","K","L","M",
               "N","O","P","Q","R","S","T","U","V","W","X","Y","Z">>
LowerCase == <<"a","b","c","d","e","f","g","h","i","j","k","l","m",
               "n","o","p","q","r","s","t","u","v","w","x","y","z">>

\* the lower-case letter of each upper-case letter
LowerOf ==
  [c \in {UpperCase[i] : i \in 1..Len(UpperCase)} |->
     LowerCase[CHOOSE i \in 1..Len(UpperCase) : UpperCase[i] = c]]

LowerChar(c) == IF c \in DOMAIN LowerOf THEN LowerOf[c] ELSE c

\* s.lower()
ToLower(s) == [i \in 1..Len(s) |-> LowerChar(s[i])]

\* needle in hay
Contains(needle, hay) ==
  \E i \in 0..(Len(hay) - Len(needle)) :
     SubSeq(hay, i + 1, i + Len(needle)) = needle

IsSpace(c) == c \in {" ", "\t", "\n", "\r"}

\* s.strip()
RECURSIVE LStrip(_)
LStrip(s) ==
  IF s # <<>> /\ IsSpace(Head(s)) THEN LStrip(Tail(s)) ELSE s

RECURSIVE RStrip(_)
RStrip(s) ==
  IF s # <<>> /\ IsSpace(s[Len(s)]) THEN RStrip(SubSeq(s, 1, Len(s) - 1)) ELSE s

Strip(s) == RStrip(LStrip(s))

\* s.split(sep) for a one-character separator: always at least one piece
RECURSIVE SplitOn(_, _)
SplitOn(s, sep) ==
  IF \E i \in 1..Len(s) : s[i] = sep
  THEN LET i == CHOOSE k \in 1..Len(s) :
                    s[k] = sep /\ \A j \in 1..(k - 1) : s[j] # sep
       IN  <<SubSeq(s, 1, i - 1)>> \o SplitOn(SubSeq(s, i + 1, Len(s)), sep)
  ELSE <<s>>

\* s.split(): the maximal runs of non-whitespace characters, possibly none
RECURSIVE SplitWs(_)
SplitWs(s) ==
  LET t == LStrip(s)
  IN  IF t = <<>> THEN <<>>
      ELSE IF \E i \in 1..Len(t) : IsSpace(t[i])
           THEN LET i == CHOOSE k \in 1..Len(t) :
                           IsSpace(t[k]) /\ \A j \in 1..(k - 1) : ~IsSpace(t[j])
                IN  <<SubSeq(t, 1, i - 1)>> \o SplitWs(SubSeq(t, i, Len(t)))
           ELSE <<t>>

(***************************************************************************)
(* float(): the literals of the form digits[.digits] or .digits, with      *)
(* surrounding whitespace.  A float is [m, e], the value m / 10^e, with no *)
(* trailing zero in m when e > 0, so that equal values are equal records.  *)
(* (Python also accepts signs, exponents, inf and nan; the input set holds *)
(* none of them.)                                                          *)
(***************************************************************************)
Digits == <<"0","1","2","3","4","5","6","7","8","9">>

IsDigit(c) == \E i \in 1..Len(Digits) : Digits[i] = c

DigitVal(c) == (CHOOSE i \in 1..Len(Digits) : Digits[i] = c) - 1

IsFloatLiteral(s) ==
  LET t == Strip(s)
  IN  /\ \A i \in 1..Len(t) : IsDigit(t[i]) \/ t[i] = "."
      /\ \E i \in 1..Len(t) : IsDigit(t[i])
      /\ Cardinality({i \in 1..Len(t) : t[i] = "."}) <= 1

RECURSIVE DigitsVal(_)
DigitsVal(d) ==
  IF d = <<>> THEN 0
  ELSE 10 * DigitsVal(SubSeq(d, 1, Len(d) - 1)) + DigitVal(d[Len(d)])

RECURSIVE Normal(_, _)
Normal(m, e) ==
  IF e > 0 /\ m % 10 = 0 THEN Normal(m \div 10, e - 1) ELSE [m |-> m, e |-> e]

FloatZero == [m |-> 0, e |-> 0]

ParseFloat(s) ==
  LET t    == Strip(s)
      pcs  == SplitOn(t, ".")
      frac == IF Len(pcs) > 1 THEN pcs[2] ELSE <<>>
  IN  Normal(DigitsVal(pcs[1] \o frac), Len(frac))

(***************************************************************************)
(* Values of a csv.DictReader row: a str, None (the restval of a row with  *)
(* fewer fields than the header) or, for a default, the int 0.  A column   *)
(* the header lacks is no key of the row.                                  *)
(***************************************************************************)
Str(s) == [tag |-> "str", val |-> s]
NoneVal == [tag |-> "None"]
IntVal(n) == [tag |-> "int", val |-> n]

\* row.get(key, default)
Get(row, key, default) == IF key \in DOMAIN row THEN row[key] ELSE default

\* bool(v)
Truthy(v) ==
  CASE v.tag = "None" -> FALSE
    [] v.tag = "str"  -> v.val # <<>>
    [] v.tag = "int"  -> v.val # 0


(***************************************************************************)
(* Inputs.  The strings the rows and the registry are drawn from.          *)
(***************************************************************************)
\* 'World Heritage', the marker of line 69
WorldHeritage == <<"W","o","r","l","d"," ","H","e","r","i","t","a","g","e">>

sWHSite    == <<"W","o","r","l","d"," ","H","e","r","i","t","a","g","e"," ","S","i","t","e">>
sUnescoWH  == <<"U","N","E","S","C","O"," ","W","o","r","l","d"," ","H","e","r","i","t","a","g","e">>
sLowerWH   == <<"w","o","r","l","d"," ","h","e","r","i","t","a","g","e"," ","s","i","t","e">>
sNatPark   == <<"N","a","t","i","o","n","a","l"," ","P","a","r","k">>
sWall      == <<"W","a","l","l">>
sWallFort  == <<"W","a","l","l"," ","F","o","r","t">>
sBlank     == <<" ">>
sTheWall   == <<"T","h","e"," ","W","a","l","l">>
sWALL      == <<"W","A","L","L">>
sTaishan   == <<"T","a","i","s","h","a","n">>

\* All columns the script reads (lines 66-86), as the header of the CSV.
FullHeader == {"WDPAID", "NAME", "DESIG_ENG", "REP_AREA", "ISO3", "MARINE"}

\* The headers a run may meet: the full one, and one of a file that has only
\* the name and designation columns.
Headers == {FullHeader, {"NAME", "DESIG_ENG"}}

\* The lines of the file, as DictReader would give them under the full header.
Lines ==
  { [WDPAID |-> Str(<<"1","0","1">>), NAME |-> Str(sWall), DESIG_ENG |-> Str(sWHSite),
     REP_AREA |-> Str(<<"1",".","5">>), ISO3 |-> Str(<<"C","H","N">>), MARINE |-> Str(<<"0">>)],
    [WDPAID |-> Str(<<"1","0","2">>), NAME |-> Str(sWallFort), DESIG_ENG |-> Str(sUnescoWH),
     REP_AREA |-> Str(<<>>), ISO3 |-> Str(<<>>), MARINE |-> Str(<<"1">>)],
    [WDPAID |-> Str(<<"1","0","3">>), NAME |-> Str(sWallFort), DESIG_ENG |-> Str(sWHSite),
     REP_AREA |-> NoneVal, ISO3 |-> Str(<<"C","H","N",";"," ","M","N","G">>), MARINE |-> NoneVal],
    [WDPAID |-> Str(<<"1","0","4">>), NAME |-> Str(sBlank), DESIG_ENG |-> Str(sWHSite),
     REP_AREA |-> Str(<<" ","2","0">>), ISO3 |-> Str(<<"C","H","N">>), MARINE |-> Str(<<"0">>)],
    [WDPAID |-> Str(<<"1","0","5">>), NAME |-> Str(sWall), DESIG_ENG |-> Str(sNatPark),
     REP_AREA |-> Str(<<"a","b","c">>), ISO3 |-> Str(<<"C","H","N">>), MARINE |-> Str(<<"0">>)],
    [WDPAID |-> Str(<<"1","0","6">>), NAME |-> Str(sWall), DESIG_ENG |-> Str(sLowerWH),
     REP_AREA |-> Str(<<"2","0">>), ISO3 |-> Str(<<"C","H","N">>), MARINE |-> Str(<<"0">>)],
    [WDPAID |-> Str(<<"1","0","7">>), NAME |-> Str(sWall), DESIG_ENG |-> NoneVal,
     REP_AREA |-> NoneVal, ISO3 |-> NoneVal, MARINE |-> NoneVal],
    [WDPAID |-> Str(<<"1","0","8">>), NAME |-> Str(sWall), DESIG_ENG |-> Str(sWHSite),
     REP_AREA |-> Str(<<"a","b","c">>), ISO3 |-> Str(<<"C","H","N">>), MARINE |-> Str(<<"0">>)] }

\* The row DictReader yields for a line under a header: the header's columns only.
RowOf(line, header) == [k \in (DOMAIN line) \cap header |-> line[k]]

\* Entries of sites.json: translations.en.name, idNumber, isoCodes.
Sites ==
  { [idNumber |-> "438", name |-> sTheWall, isoCodes |-> << <<"c","h","n">> >>],
    [idNumber |-> "2",   name |-> sWALL,    isoCodes |-> << >>],
    [idNumber |-> "437", name |-> sTaishan, isoCodes |-> << <<"C","H","N">>, <<"m","n","g">> >>] }

\* The registries: up to MaxSites entries, no entry twice.
Registries ==
  UNION { {r \in [1..k -> Sites] : \A i, j \in 1..k : r[i] = r[j] => i = j} :
          k \in 0..MaxSites }

(***************************************************************************)
(* extract_whs_components, one row.                                        *)
(***************************************************************************)
\* RowQualifies with the test made case-insensitive
RowQualifiesAnyCase(desig) == Contains(ToLower(WorldHeritage), ToLower(desig))

\* line 69: the row is kept iff 'World Heritage' in desig_eng
RowQualifies(desig) == Contains(WorldHeritage, desig)

\* line 84: float(row.get('REP_AREA', 0) or 0); "ValueError" when float() raises
AreaArg(row) ==
  LET v == Get(row, "REP_AREA", IntVal(0))
  IN  IF Truthy(v) THEN v ELSE IntVal(0)

AreaRaises(row) ==
  LET a == AreaArg(row) IN a.tag = "str" /\ ~IsFloatLiteral(a.val)

AreaOf(row) ==
  LET a == AreaArg(row)
  IN  IF a.tag = "str" THEN ParseFloat(a.val) ELSE Normal(a.val, 0)

\* line 85
IsoCodesOf(row) ==
  IF Truthy(Get(row, "ISO3", Str(<<>>)))
  THEN LET pcs == SplitOn(Get(row, "ISO3", Str(<<>>)).val, ";")
       IN  [i \in 1..Len(pcs) |-> Strip(pcs[i])]
  ELSE <<>>

\* lines 75-87.  wdpa_id stands for the fields copied as they are (wdpa_id,
\* wdpa_pid, name_orig, iucn_category, status, status_year).
ComponentOf(row) ==
  [ wdpa_id     |-> Get(row, "WDPAID", Str(<<>>)),
    name        |-> Get(row, "NAME", Str(<<>>)).val,
    designation |-> Get(row, "DESIG_ENG", Str(<<>>)).val,
    area_km2    |-> AreaOf(row),
    iso_codes   |-> IsoCodesOf(row),
    marine      |-> Get(row, "MARINE", Str(<<"0">>)) # Str(<<"0">>) ]

\* lines 90-91: whs_sites[site_name].append(component) on a defaultdict(list)
AppendTo(sites, c) ==
  IF \E i \in 1..Len(sites) : sites[i].name = c.name
  THEN [i \in 1..Len(sites) |->
          IF sites[i].name = c.name
          THEN [sites[i] EXCEPT !.comps = Append(@, c)]
          ELSE sites[i]]
  ELSE Append(sites, [name |-> c.name, comps |-> <<c>>])

(***************************************************************************)
(* create_unesco_mapping, one group against one registry entry.            *)
(***************************************************************************)
\* line 140
Strategy1(wdpa_name, site) == ToLower(wdpa_name) = ToLower(site.name)

\* line 149
Strategy2(wdpa_name, site) ==
  \/ Contains(ToLower(wdpa_name), ToLower(site.name))
  \/ Contains(ToLower(site.name), ToLower(wdpa_name))

\* line 155
Strategy3Attempted(components) ==
  components # <<>> /\ components[1].iso_codes # <<>>

\* lines 156-160
IsoOverlap(components, site) ==
  LET wdpa_iso   == {ToLower(components[1].iso_codes[i]) :
                        i \in 1..Len(components[1].iso_codes)}
      unesco_iso == {ToLower(site.isoCodes[i]) : i \in 1..Len(site.isoCodes)}
  IN  wdpa_iso \cap unesco_iso # {}

\* lines 161-162: split()[0] raises IndexError on a name with no word
FirstWordRaises(wdpa_name, site) ==
  SplitWs(wdpa_name) = <<>> \/ SplitWs(site.name) = <<>>

\* lines 161-166
FirstWordMatches(wdpa_name, site) ==
  LET wdpa_first   == ToLower(SplitWs(wdpa_name)[1])
      unesco_first == ToLower(SplitWs(site.name)[1])
  IN  \/ wdpa_first = unesco_first
      \/ Contains(wdpa_first, ToLower(site.name))
      \/ Contains(unesco_first, ToLower(wdpa_name))

\* Strategy3 without the ISO conditions of lines 155 and 160
Strategy3FirstWordOnly(wdpa_name, components, site) ==
  IF FirstWordRaises(wdpa_name, site) THEN "IndexError"
  ELSE IF FirstWordMatches(wdpa_name, site) THEN "hit" ELSE "miss"

\* lines 154-169: "hit", "miss" or "IndexError"
Strategy3(wdpa_name, components, site) ==
  IF Strategy3Attempted(components) /\ IsoOverlap(components, site)
  THEN IF FirstWordRaises(wdpa_name, site) THEN "IndexError"
       ELSE IF FirstWordMatches(wdpa_name, site) THEN "hit" ELSE "miss"
  ELSE "miss"

\* lines 136-169, the body of the loop over the registry
MatchSite(wdpa_name, components, site) ==
  IF Strategy1(wdpa_name, site) THEN "hit"
  ELSE IF Strategy2(wdpa_name, site) THEN "hit"
  ELSE Strategy3(wdpa_name, components, site)

\* ScanSites without the break statements: the last hit stands
RECURSIVE ScanSitesNoBreak(_, _, _, _)
ScanSitesNoBreak(wdpa_name, components, sites, i) ==
  IF i > Len(sites) THEN [kind |-> "unmatched", at |-> 0]
  ELSE LET r    == MatchSite(wdpa_name, components, sites[i])
           rest == ScanSitesNoBreak(wdpa_name, components, sites, i + 1)
       IN  CASE r = "hit"  -> IF rest.kind = "unmatched"
                              THEN [kind |-> "matched", at |-> i] ELSE rest
             [] r = "miss" -> rest
             [] OTHER      -> [kind |-> r, at |-> i]

\* lines 135-169: the scan of the registry from entry i on; the entry where it
\* ends (0 when the registry is exhausted) and how
RECURSIVE ScanSites(_, _, _, _)
ScanSites(wdpa_name, components, sites, i) ==
  IF i > Len(sites) THEN [kind |-> "unmatched", at |-> 0]
  ELSE LET r == MatchSite(wdpa_name, components, sites[i])
       IN  CASE r = "hit"  -> [kind |-> "matched", at |-> i]
             [] r = "miss" -> ScanSites(wdpa_name, components, sites, i + 1)
             [] OTHER      -> [kind |-> r, at |-> i]

(***************************************************************************)
(* main, lines 219-229.                                                    *)
(***************************************************************************)
\* line 225: if unesco_id
IdTruthy(unesco_id) == unesco_id # ""

\* IsSerial with the test len(components) >= 1
IsSerialOrSingle(components) == Len(components) >= 1

\* line 228
IsSerial(components) == Len(components) > 1

\* dict[key] = value
DictSet(d, key, value) ==
  [k \in (DOMAIN d) \cup {key} |-> IF k = key THEN value ELSE d[k]]

\* lines 223-229, over the groups from entry i on
RECURSIVE Reorganize(_, _, _, _)
Reorganize(groups, map, i, acc) ==
  IF i > Len(groups) THEN acc
  ELSE LET g == groups[i]
       IN  IF /\ g.name \in DOMAIN map
              /\ IdTruthy(map[g.name])
              /\ IsSerial(g.comps)
           THEN Reorganize(groups, map, i + 1, DictSet(acc, map[g.name], g.comps))
           ELSE Reorganize(groups, map, i + 1, acc)

(***************************************************************************)
(* State.                                                                  *)
(***************************************************************************)
VARIABLES
  pc,               \* where main is
  csv_exists,       \* wdpa_csv.exists()
  json_exists,      \* sites_json_path.exists()
  fieldnames,       \* the header of the CSV
  total_rows,       \* rows read
  whs_count,        \* rows kept
  whs_sites,        \* name -> components, in insertion order
  unesco_sites,     \* the registry as loaded
  gi,               \* the group create_unesco_mapping is at
  scan_pos,         \* the registry entry where the last scan ended, 0 if none
  mapping,          \* wdpa name -> idNumber
  unmatched,        \* names no entry matched
  components_by_id, \* idNumber -> components
  components_json,  \* the file components.json: "old", "truncated", "written"
  mapping_json,     \* the file wdpa-mapping.json, likewise
  stdout,           \* the steps reported as done, in order
  exc,              \* the exception main caught, "none" if none
  exit_code         \* {} while main runs, then {0} or {1}

vars == <<pc, csv_exists, json_exists, fieldnames, total_rows, whs_count,
          whs_sites, unesco_sites, gi, scan_pos, mapping, unmatched,
          components_by_id, components_json, mapping_json, stdout, exc,
          exit_code>>

EmptyDict == [k \in {} |-> {}]

Init ==
  /\ pc = "main"
  /\ csv_exists \in BOOLEAN
  /\ json_exists \in BOOLEAN
  /\ fieldnames \in Headers
  /\ total_rows = 0
  /\ whs_count = 0
  /\ whs_sites = <<>>
  /\ unesco_sites = <<>>
  /\ gi = 1
  /\ scan_pos = 0
  /\ mapping = EmptyDict
  /\ unmatched = <<>>
  /\ components_by_id = EmptyDict
  /\ components_json = "old"
  /\ mapping_json = "old"
  /\ stdout = <<>>
  /\ exc = "none"
  /\ exit_code = {}

\* Caught with the handler returning 0
CaughtReturnsZero(e) ==
  /\ pc' = "returned"
  /\ exc' = e
  /\ exit_code' = {0}

\* lines 259-263: the exception is caught and main returns 1
Caught(e) ==
  /\ pc' = "returned"
  /\ exc' = e
  /\ exit_code' = {1}

(***************************************************************************)
(* main, lines 200-209, and extract_whs_components.                        *)
(***************************************************************************)
\* lines 201-205
MainCsvMissing ==
  /\ pc = "main"
  /\ ~csv_exists
  /\ pc' = "returned"
  /\ exit_code' = {1}
  /\ UNCHANGED <<csv_exists, json_exists, fieldnames, total_rows, whs_count,
                 whs_sites, unesco_sites, gi, scan_pos, mapping, unmatched,
                 components_by_id, components_json, mapping_json, stdout, exc>>

\* ExtractOpen with components.json opened for writing before the pipeline runs
ExtractOpenTruncating ==
  /\ pc = "main"
  /\ csv_exists
  /\ pc' = "rows"
  /\ components_json' = "truncated"
  /\ UNCHANGED <<csv_exists, json_exists, fieldnames, total_rows, whs_count,
                 whs_sites, unesco_sites, gi, scan_pos, mapping, unmatched,
                 components_by_id, mapping_json, stdout, exc, exit_code>>

\* lines 207-209, 56-57
ExtractOpen ==
  /\ pc = "main"
  /\ csv_exists
  /\ pc' = "rows"
  /\ UNCHANGED <<csv_exists, json_exists, fieldnames, total_rows, whs_count,
                 whs_sites, unesco_sites, gi, scan_pos, mapping, unmatched,
                 components_by_id, components_json, mapping_json, stdout, exc,
                 exit_code>>

\* lines 59-91: one row
ExtractRow ==
  /\ pc = "rows"
  /\ total_rows < MaxRows
  /\ \E line \in Lines :
       LET row   == RowOf(line, fieldnames)
           desig == Get(row, "DESIG_ENG", Str(<<>>))
       IN  /\ total_rows' = total_rows + 1
           /\ IF desig.tag = "None"
              THEN \* line 69: `in` on None
                   /\ Caught("TypeError")
                   /\ UNCHANGED <<whs_count, whs_sites>>
              ELSE IF ~RowQualifies(desig.val)
              THEN /\ UNCHANGED <<pc, exc, exit_code, whs_count, whs_sites>>
              ELSE IF AreaRaises(row)
              THEN /\ whs_count' = whs_count + 1
                   /\ Caught("ValueError")
                   /\ UNCHANGED whs_sites
              ELSE /\ whs_count' = whs_count + 1
                   /\ whs_sites' = AppendTo(whs_sites, ComponentOf(row))
                   /\ UNCHANGED <<pc, exc, exit_code>>
  /\ UNCHANGED <<csv_exists, json_exists, fieldnames, unesco_sites, gi, scan_pos,
                 mapping, unmatched, components_by_id, components_json,
                 mapping_json, stdout>>

\* lines 56-59, 93-98: open() or the reader raises (the file vanished, bytes that
\* are not UTF-8); the handlers re-raise
ExtractReadError ==
  /\ pc = "rows"
  /\ \E e \in {"FileNotFoundError", "UnicodeDecodeError"} : Caught(e)
  /\ UNCHANGED <<csv_exists, json_exists, fieldnames, total_rows, whs_count,
                 whs_sites, unesco_sites, gi, scan_pos, mapping, unmatched,
                 components_by_id, components_json, mapping_json, stdout>>

\* lines 100-104: the reader is exhausted
ExtractReturn ==
  /\ pc = "rows"
  /\ pc' = "load"
  /\ stdout' = Append(stdout, "extracted")
  /\ UNCHANGED <<csv_exists, json_exists, fieldnames, total_rows, whs_count,
                 whs_sites, unesco_sites, gi, scan_pos, mapping, unmatched,
                 components_by_id, components_json, mapping_json, exc, exit_code>>

(***************************************************************************)
(* load_unesco_sites, lines 107-115, called at line 213.                   *)
(***************************************************************************)
\* lines 109-112
LoadMissing ==
  /\ pc = "load"
  /\ ~json_exists
  /\ Caught("FileNotFoundError")
  /\ UNCHANGED <<csv_exists, json_exists, fieldnames, total_rows, whs_count,
                 whs_sites, unesco_sites, gi, scan_pos, mapping, unmatched,
                 components_by_id, components_json, mapping_json, stdout>>

\* lines 114-115: json.load raises on a file that is not JSON
LoadError ==
  /\ pc = "load"
  /\ json_exists
  /\ Caught("JSONDecodeError")
  /\ UNCHANGED <<csv_exists, json_exists, fieldnames, total_rows, whs_count,
                 whs_sites, unesco_sites, gi, scan_pos, mapping, unmatched,
                 components_by_id, components_json, mapping_json, stdout>>

\* lines 114-115, 214, 129-130
LoadSites ==
  /\ pc = "load"
  /\ json_exists
  /\ \E registry \in Registries : unesco_sites' = registry
  /\ pc' = "match"
  /\ gi' = 1
  /\ mapping' = EmptyDict
  /\ unmatched' = <<>>
  /\ stdout' = Append(stdout, "loaded")
  /\ UNCHANGED <<csv_exists, json_exists, fieldnames, total_rows, whs_count,
                 whs_sites, scan_pos, components_by_id, components_json,
                 mapping_json, exc, exit_code>>

(***************************************************************************)
(* create_unesco_mapping, lines 132-185.                                   *)
(***************************************************************************)
\* lines 141, 150, 167: mapping[wdpa_name] = site['idNumber'] at the hit
MappingAfter(map, wdpa_name, sites, r) ==
  IF r.kind = "matched" THEN DictSet(map, wdpa_name, sites[r.at].idNumber) ELSE map

\* UnmatchedAfter with `matched` never set: every name is appended
UnmatchedAlways(unm, wdpa_name, r) == Append(unm, wdpa_name)

\* lines 171-172: if not matched: unmatched.append(wdpa_name)
UnmatchedAfter(unm, wdpa_name, r) ==
  IF r.kind = "unmatched" THEN Append(unm, wdpa_name) ELSE unm

\* lines 132-172: one group, scanned against the registry
MatchGroup ==
  /\ pc = "match"
  /\ gi <= Len(whs_sites)
  /\ LET g == whs_sites[gi]
         r == ScanSites(g.name, g.comps, unesco_sites, 1)
     IN  /\ scan_pos' = r.at
         /\ IF r.kind \in {"matched", "unmatched"}
            THEN /\ mapping' = MappingAfter(mapping, g.name, unesco_sites, r)
                 /\ unmatched' = UnmatchedAfter(unmatched, g.name, r)
                 /\ gi' = gi + 1
                 /\ UNCHANGED <<pc, exc, exit_code>>
            ELSE /\ Caught(r.kind)
                 /\ UNCHANGED <<mapping, unmatched, gi>>
  /\ UNCHANGED <<csv_exists, json_exists, fieldnames, total_rows, whs_count,
                 whs_sites, unesco_sites, components_by_id, components_json,
                 mapping_json, stdout>>

\* lines 174-185
MatchReturn ==
  /\ pc = "match"
  /\ gi > Len(whs_sites)
  /\ pc' = "reorganize"
  /\ stdout' = Append(stdout, "mapped")
  /\ UNCHANGED <<csv_exists, json_exists, fieldnames, total_rows, whs_count,
                 whs_sites, unesco_sites, gi, scan_pos, mapping, unmatched,
                 components_by_id, components_json, mapping_json, exc, exit_code>>

(***************************************************************************)
(* main, lines 219-257.                                                    *)
(***************************************************************************)
\* lines 221-231
ReorganizeById ==
  /\ pc = "reorganize"
  /\ components_by_id' = Reorganize(whs_sites, mapping, 1, EmptyDict)
  /\ pc' = "save_components"
  /\ stdout' = Append(stdout, "reorganized")
  /\ UNCHANGED <<csv_exists, json_exists, fieldnames, total_rows, whs_count,
                 whs_sites, unesco_sites, gi, scan_pos, mapping, unmatched,
                 components_json, mapping_json, exc, exit_code>>

\* lines 236-240
SaveComponents ==
  /\ pc = "save_components"
  /\ components_json' = "written"
  /\ pc' = "save_mapping"
  /\ stdout' = Append(stdout, "saved components")
  /\ UNCHANGED <<csv_exists, json_exists, fieldnames, total_rows, whs_count,
                 whs_sites, unesco_sites, gi, scan_pos, mapping, unmatched,
                 components_by_id, mapping_json, exc, exit_code>>

\* line 236: open(components_json, 'w') raises (no permission, the directory
\* is gone); the file is as it was
SaveComponentsOpenError ==
  /\ pc = "save_components"
  /\ Caught("OSError")
  /\ UNCHANGED <<csv_exists, json_exists, fieldnames, total_rows, whs_count,
                 whs_sites, unesco_sites, gi, scan_pos, mapping, unmatched,
                 components_by_id, components_json, mapping_json, stdout>>

\* line 237: json.dump raises after open(..., 'w') has truncated the file (the
\* disk is full, a string that cannot be encoded)
SaveComponentsDumpError ==
  /\ pc = "save_components"
  /\ components_json' = "truncated"
  /\ Caught("UnicodeEncodeError")
  /\ UNCHANGED <<csv_exists, json_exists, fieldnames, total_rows, whs_count,
                 whs_sites, unesco_sites, gi, scan_pos, mapping, unmatched,
                 components_by_id, mapping_json, stdout>>

\* lines 242-257
SaveMapping ==
  /\ pc = "save_mapping"
  /\ mapping_json' = "written"
  /\ pc' = "returned"
  /\ exit_code' = {0}
  /\ stdout' = Append(stdout, "saved mapping")
  /\ UNCHANGED <<csv_exists, json_exists, fieldnames, total_rows, whs_count,
                 whs_sites, unesco_sites, gi, scan_pos, mapping, unmatched,
                 components_by_id, components_json, exc>>

\* line 242: open(mapping_json, 'w') raises
SaveMappingOpenError ==
  /\ pc = "save_mapping"
  /\ Caught("OSError")
  /\ UNCHANGED <<csv_exists, json_exists, fieldnames, total_rows, whs_count,
                 whs_sites, unesco_sites, gi, scan_pos, mapping, unmatched,
                 components_by_id, components_json, mapping_json, stdout>>

\* line 243: json.dump raises after the file was truncated
SaveMappingDumpError ==
  /\ pc = "save_mapping"
  /\ mapping_json' = "truncated"
  /\ Caught("UnicodeEncodeError")
  /\ UNCHANGED <<csv_exists, json_exists, fieldnames, total_rows, whs_count,
                 whs_sites, unesco_sites, gi, scan_pos, mapping, unmatched,
                 components_by_id, components_json, stdout>>

Next ==
  \/ MainCsvMissing
  \/ ExtractOpen
  \/ ExtractRow
  \/ ExtractReadError
  \/ ExtractReturn
  \/ LoadMissing
  \/ LoadError
  \/ LoadSites
  \/ MatchGroup
  \/ MatchReturn
  \/ ReorganizeById
  \/ SaveComponents
  \/ SaveComponentsOpenError
  \/ SaveComponentsDumpError
  \/ SaveMapping
  \/ SaveMappingOpenError
  \/ SaveMappingDumpError

Spec == Init /\ [][Next]_vars

(***************************************************************************)
(* Properties.                                                             *)
(***************************************************************************)
Range(f) == {f[x] : x \in DOMAIN f}

Min(S) == CHOOSE x \in S : \A y \in S : x <= y

GroupNames == {whs_sites[i].name : i \in 1..Len(whs_sites)}

\* the groups create_unesco_mapping has finished with
Processed == 1..(gi - 1)

AllComponents == UNION {Range(whs_sites[i].comps) : i \in 1..Len(whs_sites)}

Reported(step) == \E i \in 1..Len(stdout) : stdout[i] = step

\* C1: whenever one registry entry equals the group name (case-insensitively)
\* and another one only contains it or is contained in it, the group is mapped
\* to the identifier of the equal entry.
C1_ExactMatchWins ==
  \A g \in Processed :
    \A e, o \in 1..Len(unesco_sites) :
      LET n == whs_sites[g].name
      IN  ( /\ Strategy1(n, unesco_sites[e])
            /\ ~Strategy1(n, unesco_sites[o])
            /\ Strategy2(n, unesco_sites[o]) )
          => /\ n \in DOMAIN mapping
             /\ mapping[n] = unesco_sites[e].idNumber

C3_SerialGroupsKept ==
  exit_code = {0} =>
    \A g \in 1..Len(whs_sites) :
      ( whs_sites[g].name \in DOMAIN mapping /\ Len(whs_sites[g].comps) > 1 )
      => /\ mapping[whs_sites[g].name] \in DOMAIN components_by_id
         /\ components_by_id[mapping[whs_sites[g].name]] = whs_sites[g].comps

\* C4: the area conversion raises on no row, and every component's area is the
\* number its row holds, or 0.0.
C4_AreaNeverRaises ==
  /\ exc # "ValueError"
  /\ \A c \in AllComponents :
       c.area_km2 \in {FloatZero} \cup
          {ParseFloat(l.REP_AREA.val) :
             l \in {k \in Lines : k.REP_AREA.tag = "str" /\ IsFloatLiteral(k.REP_AREA.val)}}

\* C5: every value of components_by_id is the component list of a group that
\* has more than one component and whose name is mapped to that key; a group
\* with exactly one component is the value of no key.
C5_OnlySerialGroups ==
  /\ \A id \in DOMAIN components_by_id :
       \E g \in 1..Len(whs_sites) :
          /\ Len(whs_sites[g].comps) > 1
          /\ whs_sites[g].name \in DOMAIN mapping
          /\ mapping[whs_sites[g].name] = id
          /\ components_by_id[id] = whs_sites[g].comps
  /\ \A g \in 1..Len(whs_sites) :
       Len(whs_sites[g].comps) = 1 =>
          \A id \in DOMAIN components_by_id :
             components_by_id[id] # whs_sites[g].comps

\* A successful run with a matched single-component group left out of
\* components_by_id and a serial group kept in it.
C5_Witness ==
  /\ exit_code = {0}
  /\ components_by_id # EmptyDict
  /\ \E g \in 1..Len(whs_sites) :
        /\ Len(whs_sites[g].comps) = 1
        /\ whs_sites[g].name \in DOMAIN mapping

\* what holds of the mapping at every point of the iteration over the groups
MappingStateInv ==
  /\ DOMAIN mapping \subseteq GroupNames
  /\ Range(unmatched) \subseteq GroupNames
  /\ DOMAIN mapping \cap Range(unmatched) = {}
  /\ DOMAIN mapping \cup Range(unmatched) = {whs_sites[g].name : g \in Processed}
  /\ \A i, j \in 1..Len(unmatched) : unmatched[i] = unmatched[j] => i = j
  /\ Reported("mapped") =>
        Cardinality(DOMAIN mapping) + Len(unmatched) = Len(whs_sites)

\* an entry of the mapping stays as it was written
MappingNoOverwrite ==
  \A n \in DOMAIN mapping : n \in DOMAIN mapping' /\ mapping'[n] = mapping[n]

\* C6: at every point of the iteration the mapping's keys are group names, no
\* entry is overwritten, the names done with are split between the mapping and
\* the unmatched list, and at the end matched + unmatched = number of groups.
C6_MappingInvariant == [](MappingStateInv) /\ [][MappingNoOverwrite]_vars

\* The matcher has returned with one group matched and another unmatched.
C6_Witness ==
  /\ Reported("mapped")
  /\ mapping # EmptyDict
  /\ unmatched # <<>>

AllIsoEmpty(components) ==
  \A i \in 1..Len(components) : components[i].iso_codes = <<>>

\* C7: a group whose components all have empty ISO lists is mapped only to an
\* entry that the exact or the substring heuristic accepts.
C7_NoIsoMatchWithoutCodes ==
  \A g \in Processed :
    LET n == whs_sites[g].name
    IN  ( AllIsoEmpty(whs_sites[g].comps) /\ n \in DOMAIN mapping )
        => \E i \in 1..Len(unesco_sites) :
              /\ unesco_sites[i].idNumber = mapping[n]
              /\ Strategy1(n, unesco_sites[i]) \/ Strategy2(n, unesco_sites[i])

\* A group without ISO codes whose first word is in an entry's name, and which
\* the matcher left unmatched.
C7_Witness ==
  \E g \in Processed :
    /\ AllIsoEmpty(whs_sites[g].comps)
    /\ whs_sites[g].name \notin DOMAIN mapping
    /\ \E i \in 1..Len(unesco_sites) :
          /\ ~FirstWordRaises(whs_sites[g].name, unesco_sites[i])
          /\ FirstWordMatches(whs_sites[g].name, unesco_sites[i])

\* the components given by the lines whose designation holds the marker (and
\* whose area float() takes)
MarkedComponents ==
  { ComponentOf(RowOf(l, fieldnames)) :
      l \in { k \in Lines : /\ "DESIG_ENG" \in fieldnames
                           /\ k.DESIG_ENG.tag = "str"
                           /\ Contains(WorldHeritage, k.DESIG_ENG.val)
                           /\ ~AreaRaises(RowOf(k, fieldnames)) } }

\* C8: every component of every group, and of every list of components_by_id,
\* comes from a row whose designation contains 'World Heritage'.
C8_OnlyMarkedRows ==
  LET marked == MarkedComponents
      kept   == AllComponents \cup
                UNION {Range(components_by_id[id]) : id \in DOMAIN components_by_id}
  IN  \A c \in kept : Contains(WorldHeritage, c.designation) /\ c \in marked

\* Rows without the marker were read and dropped, rows with it were kept, and
\* the run wrote its outputs.
C8_Witness ==
  /\ exit_code = {0}
  /\ whs_count < total_rows
  /\ whs_count > 0
  /\ components_by_id # EmptyDict

AllSteps == <<"extracted", "loaded", "mapped", "reorganized",
              "saved components", "saved mapping">>

\* C9: main returns 0 exactly when every step completed and both files are
\* written; it returns 1 when an input is missing or an exception was raised;
\* it returns with 0 or 1 and nothing else.
C9_ExitCode ==
  /\ exit_code = {0} <=> ( /\ pc = "returned" /\ stdout = AllSteps
                           /\ components_json = "written"
                           /\ mapping_json = "written" )
  /\ exit_code = {0} => csv_exists /\ json_exists /\ exc = "none"
  /\ exc # "none" => exit_code = {1}
  /\ (pc = "returned" /\ (~csv_exists \/ ~json_exists)) => exit_code = {1}
  /\ pc = "returned" <=> exit_code # {}
  /\ exit_code \in {{}, {0}, {1}}

\* A run that returned 0.
C9_Witness ==
  /\ exit_code = {0}
  /\ whs_sites # <<>>
  /\ unesco_sites # <<>>

\* an entry satisfies one of the three heuristics
Satisfies(wdpa_name, components, site) ==
  \/ ToLower(wdpa_name) = ToLower(site.name)
  \/ Contains(ToLower(wdpa_name), ToLower(site.name))
  \/ Contains(ToLower(site.name), ToLower(wdpa_name))
  \/ /\ components[1].iso_codes # <<>>
     /\ \E a \in Range(components[1].iso_codes), b \in Range(site.isoCodes) :
           ToLower(a) = ToLower(b)
     /\ SplitWs(wdpa_name) # <<>> /\ SplitWs(site.name) # <<>>
     /\ LET wf == ToLower(Head(SplitWs(wdpa_name)))
            uf == ToLower(Head(SplitWs(site.name)))
        IN  \/ wf = uf
            \/ Contains(wf, ToLower(site.name))
            \/ Contains(uf, ToLower(wdpa_name))

FirstSatisfying(g) ==
  LET hits == { i \in 1..Len(unesco_sites) :
                  Satisfies(whs_sites[g].name, whs_sites[g].comps, unesco_sites[i]) }
  IN  IF hits = {} THEN 0 ELSE Min(hits)

\* C10: every group done with is mapped to the identifier of the first entry of
\* the registry that satisfies a heuristic, its scan stopped there, and it is
\* in the unmatched list iff no entry satisfies one.
C10_GreedyFirstHit ==
  /\ \A g \in Processed :
       LET n == whs_sites[g].name
           f == FirstSatisfying(g)
       IN  IF f = 0
           THEN n \notin DOMAIN mapping /\ n \in Range(unmatched)
           ELSE /\ n \in DOMAIN mapping
                /\ mapping[n] = unesco_sites[f].idNumber
                /\ n \notin Range(unmatched)
  /\ (gi > 1 /\ exc # "IndexError") => scan_pos = FirstSatisfying(gi - 1)

\* A group matched at the second entry by the ISO heuristic alone, after a
\* first entry that satisfies no heuristic.
C10_Witness ==
  /\ Reported("mapped")
  /\ \E g \in Processed :
        /\ FirstSatisfying(g) = 2
        /\ ~Strategy1(whs_sites[g].name, unesco_sites[2])
        /\ ~Strategy2(whs_sites[g].name, unesco_sites[2])

=============================================================================
